---- MODULE Spec2Model ----
(***************************************************************************)
(* Model of final_submission.py: (elitist) ant colony optimisation on the  *)
(* travelling salesman problem.                                            *)
(*                                                                         *)
(* Numbers.  Pheromone, heuristic and probability values are IEEE doubles  *)
(* in the program.  They are modelled as exact non-negative rationals      *)
(* <<num, den>> in lowest terms, extended with the two special values the  *)
(* numpy arithmetic of the program produces without raising: Inf (x/0 for  *)
(* x > 0) and NaN (0/0, 0*inf, inf/inf).  Rounding error of the doubles is *)
(* not modelled.                                                           *)
(*                                                                         *)
(* Randomness.  random.randint picks any vertex; random.random() returns   *)
(* any r in [0,1).  The cumulative walk is constant on the intervals       *)
(* between consecutive cumulative sums, so r ranges over one               *)
(* representative of each interval, and over r = 0.                        *)
(***************************************************************************)
EXTENDS Integers, Sequences, FiniteSets, TLC

\* ------------------------------------------------------------------------
\* Bounds of the model (the program runs K = 50 ants for ITER = 200 rounds)
\* ------------------------------------------------------------------------
K == 2
ITER == 2

\* ------------------------------------------------------------------------
\* Extended non-negative rationals
\* ------------------------------------------------------------------------
Inf == <<1, 0>>
NaN == <<0, 0>>
Zero == <<0, 1>>
One == <<1, 1>>

RECURSIVE GCD(_, _)
GCD(a, b) == IF b = 0 THEN a ELSE GCD(b, a % b)

Norm(n, d) ==
    IF d = 0 THEN (IF n = 0 THEN NaN ELSE Inf)
    ELSE LET g == GCD(n, d) IN <<n \div g, d \div g>>

Rat(n) == <<n, 1>>
IsNaN(a) == a = NaN
IsInf(a) == a = Inf
IsFinite(a) == a[2] # 0

\* a + b as float addition does it: nan absorbs, then inf absorbs
Add(a, b) ==
    IF IsNaN(a) \/ IsNaN(b) THEN NaN
    ELSE IF IsInf(a) \/ IsInf(b) THEN Inf
    ELSE LET g == GCD(a[2], b[2])
             l == (a[2] \div g) * b[2]
         IN  Norm(a[1] * (l \div a[2]) + b[1] * (l \div b[2]), l)

\* a * b: 0 * inf = nan, x * inf = inf
Mul(a, b) ==
    IF IsNaN(a) \/ IsNaN(b) THEN NaN
    ELSE IF IsInf(a) \/ IsInf(b)
         THEN (IF a = Zero \/ b = Zero THEN NaN ELSE Inf)
    ELSE LET g1 == GCD(a[1], b[2])
             g2 == GCD(b[1], a[2])
         IN  Norm((a[1] \div g1) * (b[1] \div g2), (a[2] \div g2) * (b[2] \div g1))

\* a / b as numpy float division does it: x/0 = inf, 0/0 = nan, inf/inf = nan
Div(a, b) ==
    IF IsNaN(a) \/ IsNaN(b) THEN NaN
    ELSE IF IsInf(b) THEN (IF IsInf(a) THEN NaN ELSE Zero)
    ELSE IF IsInf(a) THEN Inf
    ELSE IF b = Zero THEN (IF a = Zero THEN NaN ELSE Inf)
    ELSE Mul(a, <<b[2], b[1]>>)

\* a >= b on floats: every comparison with nan is false
Geq(a, b) ==
    IF IsNaN(a) \/ IsNaN(b) THEN FALSE
    ELSE IF IsInf(a) THEN TRUE
    ELSE IF IsInf(b) THEN FALSE
    ELSE LET g == GCD(a[2], b[2])
         IN  a[1] * (b[2] \div g) >= b[1] * (a[2] \div g)

Less(a, b) == IsFinite(a) /\ IsFinite(b) /\ ~Geq(a, b)

RECURSIVE Pow(_, _)
Pow(a, e) == IF e = 0 THEN One ELSE Mul(a, Pow(a, e - 1))

\* Python round(): nearest integer of the rational n/d, ties to even
RoundHalfEven(n, d) ==
    LET q == n \div d
        r == n % d
    IN  IF 2 * r < d THEN q
        ELSE IF 2 * r > d THEN q + 1
        ELSE IF q % 2 = 0 THEN q ELSE q + 1

\* round(x, 4); round(inf, 4) = inf
Round4(a) ==
    IF ~IsFinite(a) THEN a
    ELSE Norm(RoundHalfEven(a[1] * 10000, a[2]), 10000)

RECURSIVE SumSeq(_)
SumSeq(s) == IF s = <<>> THEN Zero ELSE Add(Head(s), SumSeq(Tail(s)))

\* ------------------------------------------------------------------------
\* Global constants of the program
\* ------------------------------------------------------------------------
RHO == <<1, 2>>
Q == 5
ALPHA == 1
BETA == 3
BestSentinel == 1000000000
WorstSentinel == 10

\* ------------------------------------------------------------------------
\* Inputs: graphs as xml_decoder returns them, initial pheromone matrices as
\* np.round(np.random.rand(n, n), 4) with a zero diagonal can produce them
\* ------------------------------------------------------------------------
Mat(rows) ==
    [i \in 0..(Len(rows) - 1) |-> [j \in 0..(Len(rows) - 1) |-> rows[i + 1][j + 1]]]

Half == <<1, 2>>
Quarter == <<1, 4>>

Graph2 == Mat(<<<<0, 1>>, <<2, 0>>>>)
Graph2Missing == Mat(<<<<0, 0>>, <<1, 0>>>>)
Graph3 == Mat(<<<<0, 1, 5>>, <<5, 0, 1>>, <<1, 5, 0>>>>)
Graph3Flat == Mat(<<<<0, 1, 1>>, <<1, 0, 1>>, <<1, 1, 0>>>>)

\* pheromone matrices in which vertex 0 has no pheromone on its outgoing edges
SparseInputs ==
    { [n |-> 2, d |-> Graph2,
       T |-> Mat(<<<<Zero, Zero>>, <<Half, Zero>>>>)],
      [n |-> 3, d |-> Graph3,
       T |-> Mat(<<<<Zero, Zero, Zero>>, <<Half, Zero, Half>>, <<Quarter, Half, Zero>>>>)],
      [n |-> 3, d |-> Graph3Flat,
       T |-> Mat(<<<<Zero, Zero, Zero>>, <<Half, Zero, Half>>, <<Quarter, Half, Zero>>>>)] }

Inputs ==
    SparseInputs \cup
    { [n |-> 2, d |-> Graph2,
       T |-> Mat(<<<<Zero, Half>>, <<Quarter, Zero>>>>)],
      [n |-> 2, d |-> Graph2Missing,
       T |-> Mat(<<<<Zero, Half>>, <<Half, Zero>>>>)],
      [n |-> 3, d |-> Graph3,
       T |-> Mat(<<<<Zero, Half, Quarter>>, <<Half, Zero, Half>>, <<Quarter, Half, Zero>>>>)],
      [n |-> 3, d |-> Graph3,
       T |-> Mat(<<<<Zero, Half, Zero>>, <<Half, Zero, Half>>, <<Half, Half, Zero>>>>)] }

\* ELITIST and ELITISTFACTOR as the user may set them
Settings ==
    { [elitist |-> FALSE, factor |-> <<1, 5>>],
      [elitist |-> TRUE, factor |-> <<1, 5>>],
      [elitist |-> TRUE, factor |-> <<1, 2>>] }

VARIABLES
    numVertices, d, T, ELITIST, ELITISTFACTOR,   \* inputs and configuration
    H1,                                          \* heuristic matrix
    phase, x,                                    \* control: position, iteration
    allPaths, path, curr, den, chosen,           \* path construction
    pathCosts, elitistIndex, avg,
    bestPathCost, bestPath, worsePathCost, worstPath,
    result,
    T_old, built, minSeen, maxSeen               \* history

vars == <<numVertices, d, T, ELITIST, ELITISTFACTOR, H1, phase, x,
          allPaths, path, curr, den, chosen, pathCosts, elitistIndex, avg,
          bestPathCost, bestPath, worsePathCost, worstPath, result,
          T_old, built, minSeen, maxSeen>>

NoVal == <<>>
Vertices == 0..(numVertices - 1)
Range(s) == {s[k] : k \in 1..Len(s)}

\* ------------------------------------------------------------------------
\* calculate_heuristic
\* ------------------------------------------------------------------------
CalculateHeuristic(dist, n) ==
    [i \in 0..(n - 1) |-> [j \in 0..(n - 1) |->
        IF i # j THEN Round4(Div(Rat(Q), Rat(dist[i][j]))) ELSE Zero]]

\* ------------------------------------------------------------------------
\* calculate_path_cost
\* ------------------------------------------------------------------------
RECURSIVE SumInts(_)
SumInts(s) == IF s = <<>> THEN 0 ELSE Head(s) + SumInts(Tail(s))

CalculatePathCost(matrix, p) ==
    SumInts([k \in 1..(Len(p) - 1) |-> matrix[p[k]][p[k + 1]]])

\* ------------------------------------------------------------------------
\* Transition rule of one ant (one pass of the while loop)
\* ------------------------------------------------------------------------
\* H[:, path] = 0 applied to the ant's copy of H1, row curr
MaskedRow(H, p, c) ==
    [j \in DOMAIN H |-> IF j \in Range(p) THEN Zero ELSE H[c][j]]

Desirability(Tm, H, p, c) ==
    LET Hm == MaskedRow(H, p, c)
    IN  [j \in DOMAIN H |-> Mul(Pow(Tm[c][j], ALPHA), Pow(Hm[j], BETA))]

VecSum(v, n) == SumSeq([k \in 1..n |-> v[k - 1]])

Probabilities(N, n) ==
    LET dn == VecSum(N, n) IN [j \in 0..(n - 1) |-> Div(N[j], dn)]

\* the for loop over the cumulative distribution: the first i with CP >= rand,
\* -1 when the loop ends without a break
RECURSIVE WalkFrom(_, _, _, _, _)
WalkFrom(P, rand, i, CP, n) ==
    IF i = n THEN -1
    ELSE LET c == Add(CP, P[i])
         IN  IF Geq(c, rand) THEN i ELSE WalkFrom(P, rand, i + 1, c, n)

Walk(P, rand, n) == WalkFrom(P, rand, 0, Zero, n)

\* representatives of random.random() in [0,1): 0, the cumulative sums inside
\* (0,1), and a point above the largest of them
Prefix(P, i) == SumSeq([k \in 1..(i + 1) |-> P[k - 1]])

Draws(P, n) ==
    LET inner == {c \in {Prefix(P, i) : i \in 0..(n - 1)} :
                     IsFinite(c) /\ Less(Zero, c) /\ Less(c, One)}
        top == IF inner = {} THEN Zero
               ELSE CHOOSE c \in inner : \A e \in inner : Geq(c, e)
    IN  {Zero} \cup inner \cup {Mul(Add(top, One), Half)}

\* ------------------------------------------------------------------------
\* update_pheremone
\* ------------------------------------------------------------------------
OneMinus(a) == Norm(a[2] - a[1], a[2])

\* range(numVertices - 1): the positions j whose edge (path[j], path[j+1])
\* receives pheromone
DepositSteps(n) == 0..(n - 2)

\* "if i in elitistIndex and ELITIST"
GetsBonus(i, elite, elitistOn) == i \in elite /\ elitistOn

\* what ant i (0-based) adds to T[u][v]
AntDeposit(p, cost, n, u, v, bonus, factor) ==
    LET delta == Div(One, Rat(cost))
        extra == IF bonus THEN Mul(Rat(cost), factor) ELSE Zero
        hits == Cardinality({j \in DepositSteps(n) : p[j + 1] = u /\ p[j + 2] = v})
    IN  Mul(Rat(hits), Add(delta, extra))

\* delta = 1/pathCosts[i] raises ZeroDivisionError for a path of cost 0: the
\* ants before the first such ant have deposited, the others have not
Deposited(costs) ==
    IF \E i \in 1..Len(costs) : costs[i] = 0
    THEN (CHOOSE i \in 1..Len(costs) :
              costs[i] = 0 /\ \A k \in 1..(i - 1) : costs[k] # 0) - 1
    ELSE Len(costs)

UpdateRaises(costs) == \E i \in 1..Len(costs) : costs[i] = 0

UpdatePheremone(Tm, paths, costs, n, elite, elitistOn, factor) ==
    [u \in 0..(n - 1) |-> [v \in 0..(n - 1) |->
        Add(Mul(OneMinus(RHO), Tm[u][v]),
            SumSeq([i \in 1..Deposited(costs) |->
                AntDeposit(paths[i], costs[i], n, u, v,
                           GetsBonus(i - 1, elite, elitistOn), factor)]))]]

\* ------------------------------------------------------------------------
\* Selections made by ant_colony_optimisation after an iteration
\* ------------------------------------------------------------------------
\* position of ant i (0-based) in sorted(range(K), key = cost): stable sort
Rank(costs, i) ==
    Cardinality({k \in 0..(Len(costs) - 1) :
        costs[k + 1] < costs[i + 1] \/ (costs[k + 1] = costs[i + 1] /\ k < i)})

ElitistCount(factor) == RoundHalfEven(factor[1] * K, factor[2])

\* variant: the ants at the other end of the sorted order
ElitistSelectCostliest(costs, value) ==
    {i \in 0..(Len(costs) - 1) : Rank(costs, i) >= Len(costs) - value}

ElitistSelect(costs, value) ==
    {i \in 0..(Len(costs) - 1) : Rank(costs, i) < value}

\* sorted_pairs[0] and sorted_pairs[-1], as 1-based positions in allPaths
BestOf(costs) == CHOOSE i \in 1..Len(costs) : Rank(costs, i - 1) = 0
WorstOf(costs) == CHOOSE i \in 1..Len(costs) : Rank(costs, i - 1) = Len(costs) - 1

\* variant: a tie replaces the recorded best
IsBetterOrEqual(c, best) == c <= best

IsBetter(c, best) == c < best

IsWorse(c, worst) == c > worst

\* round(avg / K * ITER)
Average(total) == RoundHalfEven(total * ITER, K)

\* variant: the iteration is finished after its first ant
ColonyCompleteAfterFirst(paths) == Len(paths) >= 1

\* for i in range(K): all ants of the iteration have built their path
ColonyComplete(paths) == Len(paths) = K

\* history: smallest and largest element of a set of path costs
MinOf(S) == CHOOSE m \in S : \A e \in S : m <= e
MaxOf(S) == CHOOSE m \in S : \A e \in S : m >= e

\* ------------------------------------------------------------------------
\* State machine
\* ------------------------------------------------------------------------
InitFrom(inputs) ==
    /\ \E inp \in inputs :
          /\ numVertices = inp.n
          /\ d = inp.d
          /\ T = inp.T
          /\ T_old = inp.T
    /\ \E s \in Settings :
          /\ ELITIST = s.elitist
          /\ ELITISTFACTOR = s.factor
    /\ H1 = NoVal
    /\ phase = "Main"
    /\ x = 0
    /\ allPaths = <<>>
    /\ path = <<>>
    /\ curr = 0
    /\ den = NoVal
    /\ chosen = -1
    /\ pathCosts = <<>>
    /\ elitistIndex = {}
    /\ avg = 0
    /\ bestPathCost = BestSentinel
    /\ bestPath = <<>>
    /\ worsePathCost = WorstSentinel
    /\ worstPath = <<>>
    /\ result = NoVal
    /\ built = {}
    /\ minSeen = -1
    /\ maxSeen = -1

\* __main__: H1 = calculate_heuristic(d, numVertices), then the call of
\* ant_colony_optimisation
Main ==
    /\ phase = "Main"
    /\ H1' = CalculateHeuristic(d, numVertices)
    /\ phase' = "Top"
    /\ UNCHANGED <<numVertices, d, T, ELITIST, ELITISTFACTOR, x, allPaths, path,
                   curr, den, chosen, pathCosts, elitistIndex, avg, bestPathCost,
                   bestPath, worsePathCost, worstPath, result, T_old, built,
                   minSeen, maxSeen>>

\* for x in range(ITER): allPaths = []
BeginIteration ==
    /\ phase = "Top"
    /\ x < ITER
    /\ allPaths' = <<>>
    /\ T_old' = T
    /\ phase' = "Ants"
    /\ UNCHANGED <<numVertices, d, T, ELITIST, ELITISTFACTOR, H1, x, path, curr,
                   den, chosen, pathCosts, elitistIndex, avg, bestPathCost,
                   bestPath, worsePathCost, worstPath, result, built, minSeen,
                   maxSeen>>

\* for i in range(K): the ant picks its starting city
StartAnt ==
    /\ phase = "Ants"
    /\ ~ColonyComplete(allPaths)
    /\ \E startingCity \in Vertices :
          /\ path' = <<startingCity>>
          /\ curr' = startingCity
    /\ den' = NoVal
    /\ chosen' = -1
    /\ phase' = "Build"
    /\ UNCHANGED <<numVertices, d, T, ELITIST, ELITISTFACTOR, H1, x, allPaths,
                   pathCosts, elitistIndex, avg, bestPathCost, bestPath,
                   worsePathCost, worstPath, result, T_old, built, minSeen,
                   maxSeen>>

\* one pass of "while len(path) != numVertices"; the pass that completes the
\* path leaves the loop, closes the cycle and appends it to allPaths
Transition ==
    /\ phase = "Build"
    /\ Len(path) # numVertices
    /\ LET N == Desirability(T, H1, path, curr)
           dn == VecSum(N, numVertices)
           P == Probabilities(N, numVertices)
       IN  \E rand \in Draws(P, numVertices) :
              LET i == Walk(P, rand, numVertices)
                  grown == Append(path, i)
              IN  IF i = -1
                  THEN /\ den' = dn
                       /\ chosen' = i
                       /\ UNCHANGED <<path, curr, allPaths, phase>>
                  ELSE IF Len(grown) # numVertices
                  THEN /\ den' = dn
                       /\ chosen' = i
                       /\ path' = grown
                       /\ curr' = i
                       /\ UNCHANGED <<allPaths, phase>>
                  ELSE /\ allPaths' = Append(allPaths, Append(grown, path[1]))
                       /\ path' = <<>>
                       /\ curr' = 0
                       /\ den' = NoVal
                       /\ chosen' = -1
                       /\ phase' = "Ants"
    /\ UNCHANGED <<numVertices, d, T, ELITIST, ELITISTFACTOR, H1, x, pathCosts,
                   elitistIndex, avg, bestPathCost, bestPath, worsePathCost,
                   worstPath, result, T_old, built, minSeen, maxSeen>>

\* the rest of the iteration: costs, elitist selection, pheromone update,
\* best and worst path
FinishIteration ==
    /\ phase = "Ants"
    /\ ColonyComplete(allPaths)
    /\ LET costs == [k \in 1..Len(allPaths) |-> CalculatePathCost(d, allPaths[k])]
           elite == IF ELITIST
                    THEN ElitistSelect(costs, ElitistCount(ELITISTFACTOR))
                    ELSE {}
           b == BestOf(costs)
           w == WorstOf(costs)
       IN  /\ pathCosts' = costs
           /\ avg' = avg + SumInts(costs)
           /\ elitistIndex' = elite
           /\ T' = UpdatePheremone(T, allPaths, costs, numVertices, elite,
                                   ELITIST, ELITISTFACTOR)
           /\ IF UpdateRaises(costs)
              THEN /\ phase' = "Crashed"
                   /\ UNCHANGED <<x, bestPathCost, bestPath, worsePathCost,
                                  worstPath, built, minSeen, maxSeen>>
              ELSE /\ phase' = "Top"
                   /\ x' = x + 1
                   /\ IF IsBetter(costs[b], bestPathCost)
                      THEN bestPathCost' = costs[b] /\ bestPath' = allPaths[b]
                      ELSE UNCHANGED <<bestPathCost, bestPath>>
                   /\ IF IsWorse(costs[w], worsePathCost)
                      THEN worsePathCost' = costs[w] /\ worstPath' = allPaths[w]
                      ELSE UNCHANGED <<worsePathCost, worstPath>>
                   /\ built' = built \cup Range(allPaths)
                   /\ minSeen' = MinOf(Range(costs) \cup (IF minSeen = -1 THEN {} ELSE {minSeen}))
                   /\ maxSeen' = MaxOf(Range(costs) \cup {maxSeen})
    /\ UNCHANGED <<numVertices, d, ELITIST, ELITISTFACTOR, H1, allPaths, path,
                   curr, den, chosen, result, T_old>>

\* return bestPathCost, bestPath, worsePathCost, worstPath, round(avg / K * ITER)
Return ==
    /\ phase = "Top"
    /\ x = ITER
    /\ result' = [bestPathCost |-> bestPathCost, bestPath |-> bestPath,
                  worsePathCost |-> worsePathCost, worstPath |-> worstPath,
                  avg |-> Average(avg)]
    /\ phase' = "Done"
    /\ UNCHANGED <<numVertices, d, T, ELITIST, ELITISTFACTOR, H1, x, allPaths,
                   path, curr, den, chosen, pathCosts, elitistIndex, avg,
                   bestPathCost, bestPath, worsePathCost, worstPath, T_old,
                   built, minSeen, maxSeen>>

Init == InitFrom(Inputs)

SparseInit == InitFrom(SparseInputs)

Next ==
    \/ Main
    \/ BeginIteration
    \/ StartAnt
    \/ Transition
    \/ FinishIteration
    \/ Return

Spec == Init /\ [][Next]_vars

\* the runs from the sparse pheromone matrices
SparseSpec == SparseInit /\ [][Next]_vars

\* ------------------------------------------------------------------------
\* Properties
\* ------------------------------------------------------------------------
AfterUpdate == phase \in {"Top", "Done"} /\ x > 0

IsEdgeOf(p, u, v) == \E k \in 1..(Len(p) - 1) : p[k] = u /\ p[k + 1] = v

\* C1: every path built by an ant has length numVertices + 1, starts and ends
\* at the same vertex, and its first numVertices elements are exactly the
\* vertices, each once
C1_PathsAreHamiltonianCycles ==
    \A a \in 1..Len(allPaths) :
        LET p == allPaths[a]
        IN  /\ Len(p) = numVertices + 1
            /\ p[1] = p[numVertices + 1]
            /\ {p[k] : k \in 1..numVertices} = Vertices

\* the ant is in a pass of its loop that appends nothing whatever is drawn:
\* nothing the pass reads changes, so every later pass is the same
Hung ==
    /\ phase = "Build"
    /\ Len(path) # numVertices
    /\ LET P == Probabilities(Desirability(T, H1, path, curr), numVertices)
       IN  \A rand \in Draws(P, numVertices) : Walk(P, rand, numVertices) = -1

\* C2: a run that has started always reaches Done: it never raises, and no
\* ant's construction loop runs forever
C2_RunNeverHangsNorRaises == phase # "Crashed" /\ ~Hung

\* C3: with elitism disabled, after an update every entry is the evaporated
\* old value plus 1/cost_i for each of the numVertices consecutive edges of
\* each path that equal the entry, the closing edge included
C3_DepositOnEveryEdge ==
    (AfterUpdate /\ ~ELITIST) =>
        \A u \in Vertices : \A v \in Vertices :
            T[u][v] =
                Add(Mul(OneMinus(RHO), T_old[u][v]),
                    SumSeq([i \in 1..Len(allPaths) |->
                        Mul(Rat(Cardinality({k \in 0..(numVertices - 1) :
                                allPaths[i][k + 1] = u /\ allPaths[i][k + 2] = v})),
                            Div(One, Rat(pathCosts[i])))]))

\* pheromone after the update had no ant received a bonus
WithoutBonus ==
    UpdatePheremone(T_old, allPaths, pathCosts, numVertices, {}, FALSE, ELITISTFACTOR)

\* C4: a bonus reaches only edges of paths of ants of the elitist set; with
\* ELITIST enabled the set holds round(ELITISTFACTOR * K) ants, none of them
\* costlier than an ant outside it; with ELITIST disabled no entry receives a
\* bonus whatever set is passed to update_pheremone
C4_BonusOnlyForElitistAnts ==
    AfterUpdate =>
        /\ \A u \in Vertices : \A v \in Vertices :
              T[u][v] # WithoutBonus[u][v] =>
                  /\ ELITIST
                  /\ \E i \in elitistIndex : IsEdgeOf(allPaths[i + 1], u, v)
        /\ ELITIST =>
              /\ Cardinality(elitistIndex) =
                     RoundHalfEven(ELITISTFACTOR[1] * K, ELITISTFACTOR[2])
              /\ elitistIndex \subseteq 0..(K - 1)
              /\ \A i \in elitistIndex : \A j \in (0..(K - 1)) \ elitistIndex :
                     pathCosts[i + 1] <= pathCosts[j + 1]
        /\ ~ELITIST =>
              \A any \in SUBSET (0..(K - 1)) :
                  UpdatePheremone(T_old, allPaths, pathCosts, numVertices, any,
                                  ELITIST, ELITISTFACTOR) = T

C4_Witness ==
    /\ AfterUpdate
    /\ ELITIST
    /\ \E i \in elitistIndex : \E j \in (0..(K - 1)) \ elitistIndex :
          pathCosts[i + 1] < pathCosts[j + 1]
    /\ \E u \in Vertices : \E v \in Vertices : T[u][v] # WithoutBonus[u][v]

\* C5: the returned worst cost is the largest cost of any path of the run and
\* the returned worst path is a path of the run with that cost
C5_WorstIsMaximum ==
    phase = "Done" =>
        /\ result.worsePathCost = maxSeen
        /\ result.worstPath \in built
        /\ CalculatePathCost(d, result.worstPath) = result.worsePathCost

\* C6: a pass of the construction loop that finds sum(N) = 0 still appends a
\* vertex the ant has not visited
C6_ZeroDenominatorHandled ==
    (phase = "Build" /\ den = Zero) =>
        /\ chosen \in Vertices
        /\ path[Len(path)] = chosen
        /\ chosen \notin Range(SubSeq(path, 1, Len(path) - 1))

\* C7: with a zero off-diagonal distance calculate_heuristic fails: no
\* heuristic matrix is returned, no path is built, the pheromone is untouched
C7_ZeroDistanceAborts ==
    (\E i \in Vertices : \E j \in Vertices : i # j /\ d[i][j] = 0) =>
        /\ H1 = NoVal
        /\ allPaths = <<>>
        /\ path = <<>>
        /\ T = T_old

\* C8: T keeps the value it had when the first ant of the iteration started
\* for as long as ants build paths; it changes only in the step that has all K
\* paths and computes all K costs, and that step, which ends the iteration,
\* applies the whole update
C8_PheromoneFixedWhileAntsBuild ==
    /\ [](phase \in {"Ants", "Build"} => T = T_old)
    /\ [][/\ T' # T =>
                /\ phase = "Ants"
                /\ Len(allPaths) = K
                /\ Len(pathCosts') = K
                /\ phase' \in {"Top", "Crashed"}
          /\ x' # x =>
                /\ x' = x + 1
                /\ Len(allPaths) = K
                /\ T' = UpdatePheremone(T, allPaths, pathCosts', numVertices,
                                        elitistIndex', ELITIST, ELITISTFACTOR)]_vars

C8_Witness ==
    /\ phase = "Build"
    /\ x >= 1
    /\ Len(allPaths) = K - 1
    /\ Len(pathCosts) = K

\* C9: the returned average is the sum of all path costs divided by K * ITER,
\* rounded
C9_AverageIsMean ==
    phase = "Done" => result.avg = RoundHalfEven(avg, K * ITER)

\* C10: after every iteration bestPathCost is the smallest cost of the run so
\* far and bestPath a path of the run with that cost; bestPathCost never
\* increases and a tour of equal cost does not replace bestPath
C10_BestIsRunningMinimum ==
    /\ [](x > 0 =>
            /\ bestPathCost = minSeen
            /\ bestPath \in built
            /\ CalculatePathCost(d, bestPath) = bestPathCost)
    /\ [][/\ bestPathCost' <= bestPathCost
          /\ bestPath' # bestPath => bestPathCost' < bestPathCost]_vars

C10_Witness ==
    /\ phase = "Top"
    /\ x >= 2
    /\ \E k \in 1..Len(allPaths) :
          pathCosts[k] = bestPathCost /\ allPaths[k] # bestPath
    /\ \A k \in 1..Len(allPaths) : pathCosts[k] >= bestPathCost

====
